---- MODULE Spec2Model ----
(***************************************************************************)
(* A model of the simulation core of Snake.cpp: Snake, Food,               *)
(* CollisionHandler, ScoreHandler and GameCore::Update.                    *)
(*                                                                         *)
(* A Vector2 is a pair <<x, y>> of integers: every coordinate the program  *)
(* computes is an integer-valued float far below 2^24, so float arithmetic *)
(* and Vector2Equals are exact on them.  Clock values (GetTime, interval)  *)
(* are counted in tenths of a second.                                      *)
(***************************************************************************)
EXTENDS Integers, Sequences, FiniteSets, TLC

\* ------------------------------------------------------------------ bounds
\* The clock readings GetTime() returns are in 1..MaxTime.
MaxTime == 10
\* Two successive frames are between 1 and MaxDt tenths of a second apart.
MaxDt == 2
\* GetRandomValue draws are taken from a window of RandSpan cell indices.
RandSpan == 2
\* Snake::Update on its own is run up to the clock reading MaxSnakeTime.
MaxSnakeTime == 3

\* ------------------------------------------------------- program constants
gridWidth == 800
gridHeight == 800
offset == 50
cellSize == 50
rows == gridHeight \div cellSize
cols == gridWidth \div cellSize
scoreMultiplier == 10

\* ---------------------------------------------------------- GameSettings
Difficulty == {"Easy", "Medium", "Hard"}

\* The strings a session is constructed from in the model.
DifficultyNames == {"Easy", "Medium", "Hard", "Insane"}

getInterval(d) ==
    CASE d = "Easy" -> 5
      [] d = "Medium" -> 3
      [] d = "Hard" -> 1
      [] OTHER -> 6

\* setDifficulty with Hard as the default.
setDifficultyDefaultHard(sDifficulty) ==
    IF sDifficulty = "Easy" THEN "Easy"
    ELSE IF sDifficulty = "Medium" THEN "Medium"
    ELSE IF sDifficulty = "Hard" THEN "Hard"
    ELSE "Hard"

setDifficulty(sDifficulty) ==
    IF sDifficulty = "Easy" THEN "Easy"
    ELSE IF sDifficulty = "Medium" THEN "Medium"
    ELSE IF sDifficulty = "Hard" THEN "Hard"
    ELSE "Easy"

\* ------------------------------------------------------------------ input
KEY_W == "W"
KEY_S == "S"
KEY_A == "A"
KEY_D == "D"
Keys == {KEY_W, KEY_S, KEY_A, KEY_D}

\* The key states of a frame of a whole game: no key or one key down.  Every
\* direction getMoveDirection can resolve from a set of keys is resolved
\* from one of these (the first eligible key alone), so they drive the
\* snake through every move it can make.
FrameKeys == {{}} \cup {{k} : k \in Keys}

\* The key states of a frame when Snake::Update is run on its own.
AllKeys == SUBSET Keys

\* ---------------------------------------------------------------- vectors
Vector2Add(a, b) == <<a[1] + b[1], a[2] + b[2]>>
\* The product with only the x component scaled.
Vector2ScaleX(v, k) == <<v[1] * k, v[2]>>

Vector2Scale(v, k) == <<v[1] * k, v[2] * k>>
Vector2Equals(a, b) == a[1] = b[1] /\ a[2] = b[2]

\* ------------------------------------------------------------------ state
VARIABLES
    sDifficulty,    \* the string GameCore was constructed from
    difficulty,     \* Snake::difficulty
    interval,       \* Snake::interval
    addSegment,     \* Snake::addSegment
    snakeBody,      \* Snake::snakeBody, head first
    lastDirection,  \* Snake::lastDirection
    lastUpdateTime, \* the static local of Snake::Update
    applePos,       \* Food::applePos
    foodEaten,      \* CollisionHandler::foodEaten
    collisionOver,  \* CollisionHandler::gameOver
    gameOver,       \* GameCore::gameOver
    score,          \* ScoreHandler::score
    length,         \* ScoreHandler::length
    currentTime,    \* the clock reading of the latest frame
    keysDown,       \* the keys that were down in the latest frame
    moved,          \* whether the latest frame called moveSnake
    eatenEvents,    \* how often foodCollisionHandle has found the head on the food
    advances,       \* how often moveSnake has been called
    spawnPc,        \* where generateRandomPos is: "idle", "draw" or "done"
    spawnPos        \* the local pos of generateRandomPos: its latest draw

vars == <<sDifficulty, difficulty, interval, addSegment, snakeBody,
          lastDirection, lastUpdateTime, applePos, foodEaten, collisionOver,
          gameOver, score, length, currentTime, keysDown, moved, eatenEvents,
          advances, spawnPc, spawnPos>>

\* ------------------------------------------------------------------- Food
\* The first cell index of the window GetRandomValue draws from: one cell
\* before the initial head.
RandFirst == ((cols * cellSize) \div 2 - cellSize) \div cellSize - 1

GetRandomValue(min, max) ==
    {v \in min..max : v >= RandFirst /\ v < RandFirst + RandSpan}

\* shouldGenerateAgain with only the head compared.
shouldGenerateAgainOnlyHead(body, pos) ==
    pos = body[1]

\* shouldGenerateAgain with the head left out of the comparison.
shouldGenerateAgainSkipHead(body, pos) ==
    \E i \in 2..Len(body) : pos = body[i]

shouldGenerateAgain(body, pos) ==
    \E i \in 1..Len(body) : pos = body[i]

\* The positions the do-while loop of generateRandomPos can return: a draw
\* that the loop condition accepts.  The loop returns nothing when every
\* draw is rejected.
generateRandomPos(body) ==
    {pos \in {<<randX * cellSize + offset, randY * cellSize + offset>> :
                 randX \in GetRandomValue(0, rows - 1),
                 randY \in GetRandomValue(0, cols - 1)} :
        ~shouldGenerateAgain(body, pos)}

\* ------------------------------------------------------------------ Snake
InitBody ==
    << <<(cols * cellSize) \div 2 - cellSize, (rows * cellSize) \div 2 - cellSize>>,
       <<(cols * cellSize) \div 2, (rows * cellSize) \div 2 - cellSize>> >>

InitDirection == <<-1, 0>>

\* getMoveDirection with the A key tested before the S key.
getMoveDirectionLeftFirst(last, keys) ==
    IF KEY_W \in keys /\ last[2] # 1 THEN <<0, -1>>
    ELSE IF KEY_A \in keys /\ last[1] # 1 THEN <<-1, 0>>
    ELSE IF KEY_S \in keys /\ last[2] # -1 THEN <<0, 1>>
    ELSE IF KEY_D \in keys /\ last[1] # -1 THEN <<1, 0>>
    ELSE last

\* lastDirection after the if / else-if chain of getMoveDirection.
getMoveDirection(last, keys) ==
    IF KEY_W \in keys /\ last[2] # 1 THEN <<0, -1>>
    ELSE IF KEY_S \in keys /\ last[2] # -1 THEN <<0, 1>>
    ELSE IF KEY_A \in keys /\ last[1] # 1 THEN <<-1, 0>>
    ELSE IF KEY_D \in keys /\ last[1] # -1 THEN <<1, 0>>
    ELSE last

\* moveSnake without the reset of addSegment.
moveSnakeKeepFlag(body, add, direction) ==
    LET pushed == <<Vector2Add(body[1], direction)>> \o body
    IN  IF add THEN [body |-> pushed, add |-> add]
        ELSE [body |-> SubSeq(pushed, 1, Len(pushed) - 1), add |-> add]

\* moveSnake with the tail removed whether or not addSegment is set.
moveSnakeAlwaysPop(body, add, direction) ==
    LET pushed == <<Vector2Add(body[1], direction)>> \o body
    IN  [body |-> SubSeq(pushed, 1, Len(pushed) - 1), add |-> FALSE]

\* snakeBody and addSegment after moveSnake(direction).
moveSnake(body, add, direction) ==
    LET pushed == <<Vector2Add(body[1], direction)>> \o body
    IN  IF add THEN [body |-> pushed, add |-> FALSE]
        ELSE [body |-> SubSeq(pushed, 1, Len(pushed) - 1), add |-> add]

\* The condition of Snake::Update with > in place of >=.
moveIsDueStrict(now, lastTime, ival) == now - lastTime > ival

\* The condition of Snake::Update under which the snake moves.
moveIsDue(now, lastTime, ival) == now - lastTime >= ival

\* Snake::Update at clock reading now: the snake's fields afterwards.
SnakeUpdate(body, add, last, lastTime, ival, keys, now) ==
    LET dir == getMoveDirection(last, keys)
        direction == Vector2Scale(dir, cellSize)
    IN  IF moveIsDue(now, lastTime, ival)
        THEN LET m == moveSnake(body, add, direction)
             IN  [body |-> m.body, add |-> m.add, last |-> dir,
                  lastTime |-> now, moved |-> TRUE]
        ELSE [body |-> body, add |-> add, last |-> dir,
              lastTime |-> lastTime, moved |-> FALSE]

\* ------------------------------------------------------- CollisionHandler
\* foodCollisionHandle without the new applePos.
foodCollisionHandleNoRespawn(body, apple, add, eaten) ==
    IF Vector2Equals(body[1], apple)
    THEN {[apple |-> apple, add |-> TRUE, eaten |-> TRUE, hit |-> TRUE]}
    ELSE {[apple |-> apple, add |-> add, eaten |-> eaten, hit |-> FALSE]}

\* foodCollisionHandle without the assignment to addSegment.
foodCollisionHandleNoGrow(body, apple, add, eaten) ==
    IF Vector2Equals(body[1], apple)
    THEN {[apple |-> pos, add |-> add, eaten |-> TRUE, hit |-> TRUE] :
             pos \in generateRandomPos(body)}
    ELSE {[apple |-> apple, add |-> add, eaten |-> eaten, hit |-> FALSE]}

\* The outcomes of foodCollisionHandle: applePos, addSegment and foodEaten
\* afterwards, and whether the head was on the food.
foodCollisionHandle(body, apple, add, eaten) ==
    IF Vector2Equals(body[1], apple)
    THEN {[apple |-> pos, add |-> TRUE, eaten |-> TRUE, hit |-> TRUE] :
             pos \in generateRandomPos(body)}
    ELSE {[apple |-> apple, add |-> add, eaten |-> eaten, hit |-> FALSE]}

\* borderCollisionHandle with <= in place of < at the near borders.
borderCollisionHandleInclusive(over, snakeHead) ==
    IF \/ snakeHead[1] <= offset
       \/ snakeHead[1] >= gridWidth + offset
       \/ snakeHead[2] <= offset
       \/ snakeHead[2] >= gridHeight + offset
    THEN TRUE
    ELSE over

\* borderCollisionHandle with > in place of >= at the far borders.
borderCollisionHandleStrict(over, snakeHead) ==
    IF \/ snakeHead[1] < offset
       \/ snakeHead[1] > gridWidth + offset
       \/ snakeHead[2] < offset
       \/ snakeHead[2] > gridHeight + offset
    THEN TRUE
    ELSE over

\* gameOver after borderCollisionHandle(snakeHead).
borderCollisionHandle(over, snakeHead) ==
    IF \/ snakeHead[1] < offset
       \/ snakeHead[1] >= gridWidth + offset
       \/ snakeHead[2] < offset
       \/ snakeHead[2] >= gridHeight + offset
    THEN TRUE
    ELSE over

\* selfCollisionHandle with the loop ending one segment before the tail.
selfCollisionHandleSkipTail(over, snakeHead, body) ==
    IF \E i \in 2..(Len(body) - 1) : Vector2Equals(snakeHead, body[i])
    THEN TRUE
    ELSE over

\* gameOver after selfCollisionHandle(snakeHead).
selfCollisionHandle(over, snakeHead, body) ==
    IF \E i \in 2..Len(body) : Vector2Equals(snakeHead, body[i])
    THEN TRUE
    ELSE over

\* The outcomes of CollisionHandler::handle; over is the value it returns.
handle(body, apple, add, eaten, over) ==
    LET snakeHead == body[1]
    IN  {[apple |-> f.apple, add |-> f.add, eaten |-> f.eaten, hit |-> f.hit,
          over |-> selfCollisionHandle(
                       borderCollisionHandle(over, snakeHead), snakeHead, body)] :
            f \in foodCollisionHandle(body, apple, add, eaten)}

\* ----------------------------------------------------------- ScoreHandler
\* ScoreHandler::Update without the reset of foodEaten.
ScoreUpdateKeepSignal(sc, len, eaten) ==
    IF eaten
    THEN [score |-> sc + scoreMultiplier, length |-> len + 1, eaten |-> eaten]
    ELSE [score |-> sc, length |-> len, eaten |-> eaten]

\* score, length and foodEaten after ScoreHandler::Update.
ScoreUpdate(sc, len, eaten) ==
    IF eaten
    THEN [score |-> sc + scoreMultiplier, length |-> len + 1, eaten |-> FALSE]
    ELSE [score |-> sc, length |-> len, eaten |-> eaten]

\* --------------------------------------------------------------- GameCore
Init ==
    /\ sDifficulty \in DifficultyNames
    /\ difficulty = setDifficulty(sDifficulty)
    /\ interval = getInterval(difficulty)
    /\ addSegment = FALSE
    /\ snakeBody = InitBody
    /\ lastDirection = InitDirection
    /\ lastUpdateTime = 0
    /\ applePos \in generateRandomPos(InitBody)
    /\ spawnPos = applePos
    /\ spawnPc = "idle"
    /\ foodEaten = FALSE
    /\ collisionOver = FALSE
    /\ gameOver = FALSE
    /\ score = 0
    /\ length = 2
    /\ currentTime = 0
    /\ keysDown = {}
    /\ moved = FALSE
    /\ eatenEvents = 0
    /\ advances = 0

\* The test of GameCore::Update left out.
isRunningAlways(over) == TRUE

\* The test of GameCore::Update: the frame updates the game.
isRunning(over) == ~over

\* One frame of GameCore::exec while the game runs: GameCore::Update with
\* the keys that are down and the clock reading now.  Snake::Update, then
\* ScoreHandler::Update, then CollisionHandler::handle.
Update(keys, now) ==
    /\ isRunning(gameOver)
    /\ \E s \in {SnakeUpdate(snakeBody, addSegment, lastDirection,
                             lastUpdateTime, interval, keys, now)} :
       \E sb \in {ScoreUpdate(score, length, foodEaten)} :
       \E h \in handle(s.body, applePos, s.add, sb.eaten, collisionOver) :
           /\ snakeBody' = s.body
           /\ lastDirection' = s.last
           /\ lastUpdateTime' = s.lastTime
           /\ moved' = s.moved
           /\ score' = sb.score
           /\ length' = sb.length
           /\ applePos' = h.apple
           /\ addSegment' = h.add
           /\ foodEaten' = h.eaten
           /\ collisionOver' = h.over
           /\ gameOver' = h.over
           /\ eatenEvents' = IF h.hit THEN eatenEvents + 1 ELSE eatenEvents
           /\ advances' = IF s.moved THEN advances + 1 ELSE advances
           /\ spawnPos' = IF h.hit THEN h.apple ELSE spawnPos
    /\ currentTime' = now
    /\ keysDown' = keys
    /\ UNCHANGED <<sDifficulty, difficulty, interval, spawnPc>>

\* One frame after the game is over: GameCore::Update does nothing.
UpdateOver(keys, now) ==
    /\ ~isRunning(gameOver)
    /\ currentTime' = now
    /\ keysDown' = keys
    /\ moved' = FALSE
    /\ UNCHANGED <<sDifficulty, difficulty, interval, addSegment, snakeBody,
                   lastDirection, lastUpdateTime, applePos, foodEaten,
                   collisionOver, gameOver, score, length, eatenEvents,
                   advances, spawnPc, spawnPos>>

Frame ==
    \E keys \in FrameKeys :
        \E now \in (currentTime + 1)..(currentTime + MaxDt) :
            /\ now <= MaxTime
            /\ (Update(keys, now) \/ UpdateOver(keys, now))

Next == Frame

Spec == Init /\ [][Next]_vars

\* ------------------------------------------------- Snake::Update on its own
\* One call of Snake::Update with any set of keys down; nothing else of the
\* game runs.
SnakeFrame ==
    \E keys \in AllKeys :
        \E now \in (currentTime + 1)..(currentTime + MaxDt) :
            /\ now <= MaxSnakeTime
            /\ \E s \in {SnakeUpdate(snakeBody, addSegment, lastDirection,
                                     lastUpdateTime, interval, keys, now)} :
                   /\ snakeBody' = s.body
                   /\ addSegment' = s.add
                   /\ lastDirection' = s.last
                   /\ lastUpdateTime' = s.lastTime
                   /\ moved' = s.moved
                   /\ advances' = IF s.moved THEN advances + 1 ELSE advances
            /\ currentTime' = now
            /\ keysDown' = keys
            /\ UNCHANGED <<sDifficulty, difficulty, interval, applePos,
                           foodEaten, collisionOver, gameOver, score, length,
                           eatenEvents, spawnPc, spawnPos>>

SnakeNext == SnakeFrame

SnakeSpec == Init /\ [][SnakeNext]_vars

\* ------------------------------------------------ a game with the keys held
\* One frame of a game in which the player holds the same keys, any set of
\* them or none, down from the first frame on.
HeldFrame ==
    \E keys \in AllKeys :
        \E now \in (currentTime + 1)..(currentTime + MaxDt) :
            /\ currentTime = 0 \/ keys = keysDown
            /\ now <= MaxTime
            /\ (Update(keys, now) \/ UpdateOver(keys, now))

HeldNext == HeldFrame

HeldSpec == Init /\ [][HeldNext]_vars

\* ------------------------------------- the loop of Food::generateRandomPos
\* The cells of the board, row by row, each row in the direction opposite
\* to the row before it: the body of a snake that fills the board.
FullBody ==
    [k \in 1..(rows * cols) |->
        LET r == (k - 1) \div cols
            c == (k - 1) % cols
            x == IF r % 2 = 0 THEN c ELSE cols - 1 - c
        IN  <<x * cellSize + offset, r * cellSize + offset>>]

\* The bodies generateRandomPos is called with here: the initial snake one
\* advance on, a snake that leaves one cell of the board free, and a snake
\* that fills the board.
SpawnBodies ==
    {moveSnake(InitBody, FALSE, Vector2Scale(InitDirection, cellSize)).body,
     SubSeq(FullBody, 2, rows * cols),
     FullBody}

\* foodCollisionHandle has found the head on the food and has called
\* generateRandomPos, which is about to draw.  pos is not read before the
\* first draw assigns it.
SpawnInit ==
    /\ sDifficulty = "Medium"
    /\ difficulty = setDifficulty(sDifficulty)
    /\ interval = getInterval(difficulty)
    /\ snakeBody \in SpawnBodies
    /\ applePos = snakeBody[1]
    /\ spawnPos = snakeBody[1]
    /\ spawnPc = "draw"
    /\ addSegment = FALSE
    /\ lastDirection = InitDirection
    /\ lastUpdateTime = interval
    /\ currentTime = interval
    /\ foodEaten = FALSE
    /\ collisionOver = FALSE
    /\ gameOver = FALSE
    /\ eatenEvents = Len(snakeBody) - 1
    /\ score = scoreMultiplier * (Len(snakeBody) - 2)
    /\ length = Len(snakeBody)
    /\ keysDown = {}
    /\ moved = TRUE
    /\ advances = Len(snakeBody) - 1

\* One pass of the do-while loop whose draw is on the body: the loop goes
\* on.  Every value of GetRandomValue(0, rows - 1) can be drawn here.
SpawnDrawRejected ==
    /\ spawnPc = "draw"
    /\ \E randX \in 0..(rows - 1), randY \in 0..(cols - 1) :
           \E pos \in {<<randX * cellSize + offset, randY * cellSize + offset>>} :
               /\ shouldGenerateAgain(snakeBody, pos)
               /\ spawnPos' = pos
    /\ UNCHANGED <<sDifficulty, difficulty, interval, addSegment, snakeBody,
                   lastDirection, lastUpdateTime, applePos, foodEaten,
                   collisionOver, gameOver, score, length, currentTime,
                   keysDown, moved, eatenEvents, advances, spawnPc>>

\* One pass of the do-while loop whose draw is on no body cell: the loop
\* ends, generateRandomPos returns pos and foodCollisionHandle goes on.
SpawnDrawAccepted ==
    /\ spawnPc = "draw"
    /\ spawnPc' = "done"
    /\ addSegment' = TRUE
    /\ foodEaten' = TRUE
    /\ \E randX \in 0..(rows - 1), randY \in 0..(cols - 1) :
           \E pos \in {<<randX * cellSize + offset, randY * cellSize + offset>>} :
               /\ spawnPos' = pos
               /\ applePos' = pos
               /\ ~shouldGenerateAgain(snakeBody, pos)
    /\ UNCHANGED <<sDifficulty, difficulty, interval, snakeBody,
                   lastDirection, lastUpdateTime, collisionOver, gameOver,
                   score, length, currentTime, keysDown, moved, eatenEvents,
                   advances>>

SpawnNext == SpawnDrawRejected \/ SpawnDrawAccepted

\* The cells of the board.
BoardCells ==
    {<<x * cellSize + offset, y * cellSize + offset>> :
        x \in 0..(cols - 1), y \in 0..(rows - 1)}

\* Some cell of the board is not a cell of the body.
HasFreeCell(body) ==
    BoardCells \ {body[i] : i \in 1..Len(body)} # {}

\* The loop ends: SpawnDrawAccepted, which can happen only with a free cell
\* (the test comes first so that it is decided without trying every draw).
SpawnReturn == HasFreeCell(snakeBody) /\ SpawnDrawAccepted

\* A draw that ends the loop is not put off forever: GetRandomValue keeps
\* drawing every cell.
SpawnSpec == SpawnInit /\ [][SpawnNext]_vars /\ WF_vars(SpawnReturn)

\* ------------------------------------------------------------- properties
OnBody(pos, body) == \E i \in 1..Len(body) : pos = body[i]

Opposite(d) == <<-d[1], -d[2]>>

\* C1: game-over is a one-way latch: once the game-over flag is true it
\* stays true in every later frame, and no later frame changes the snake
\* body, the direction, the pending-growth flag, the food position, the
\* score or the length counter, whatever keys are down and whatever the
\* clock reads.
C1_GameOverLatch ==
    [][gameOver =>
          /\ gameOver'
          /\ snakeBody' = snakeBody
          /\ lastDirection' = lastDirection
          /\ addSegment' = addSegment
          /\ applePos' = applePos
          /\ score' = score
          /\ length' = length]_vars

\* A frame with a key down has run after the frame that ended the game.
C1_Witness ==
    gameOver /\ currentTime > lastUpdateTime /\ keysDown # {}

\* C2: the game-over flag is true at the end of a frame if and only if the
\* head has x or y below 50 or at or above 850, or the head equals a body
\* segment behind it; a head on a cell with coordinates 50..800 on both
\* axes that is not on its own body does not end the game.
C2_GameOverIffCollision ==
    LET snakeHead == snakeBody[1]
    IN  gameOver <=>
            \/ snakeHead[1] < 50 \/ snakeHead[1] >= 850
            \/ snakeHead[2] < 50 \/ snakeHead[2] >= 850
            \/ \E i \in 2..Len(snakeBody) : snakeBody[i] = snakeHead

\* The head has stepped over the far border of the board, from the last
\* cell (800) to 850.
C2_Witness ==
    gameOver /\ (snakeBody[1][1] = 850 \/ snakeBody[1][2] = 850)

\* C3: reversal is forbidden: the new head of an advance never lands on the
\* cell that was the segment right behind the head before the advance (the
\* direction of an advance is never the opposite of the previous one's).
C3_NoReversal ==
    [][moved' => snakeBody'[1] # snakeBody[2]]_vars

\* The frame is an advance onto the food, which lay on the cell right ahead
\* of the head in the direction the snake had.
AdvanceOntoFood ==
    /\ ~gameOver
    /\ moved'
    /\ applePos = Vector2Add(snakeBody[1], Vector2Scale(lastDirection, cellSize))
    /\ snakeBody'[1] = applePos

C5_ScoreOncePerFood ==
    /\ [](LET pending == IF foodEaten THEN 1 ELSE 0
          IN  /\ score = 10 * (eatenEvents - pending)
              /\ length = 2 + (eatenEvents - pending))
    /\ [][/\ (foodEaten /\ ~gameOver) =>
                 /\ score' = score + 10
                 /\ length' = length + 1
                 /\ foodEaten' <=> (eatenEvents' = eatenEvents + 1)
          /\ ~foodEaten => (score' = score /\ length' = length)
          /\ score' >= score
          /\ length' >= length]_vars

\* Two events have been scored and no signal is pending.
C5_Witness ==
    eatenEvents = 2 /\ ~foodEaten /\ score = 20 /\ length = 4

\* C6: scoring follows collision evaluation within a frame, so at the end
\* of every frame the score and the length counter already account for
\* every food-eaten event, that of the same frame included.
C6_ScoredInSameTick ==
    score = 10 * eatenEvents /\ length = 2 + eatenEvents

\* C7: the coordinate generateRandomPos returns, at construction and at
\* every food-eaten event, is no cell of the body passed to it, the head
\* included.
C7_SpawnValid ==
    /\ [](currentTime = 0 => ~OnBody(applePos, snakeBody))
    /\ [][eatenEvents' # eatenEvents =>
             /\ ~OnBody(applePos', snakeBody')
             /\ applePos' # snakeBody'[1]]_vars

\* A food has been spawned for a snake that had grown to three segments.
C7_Witness ==
    foodEaten /\ eatenEvents = 2 /\ Len(snakeBody) = 3

\* C8: while the game runs the snake advances in a frame if and only if the
\* clock reading minus the time of the last advance is at least the
\* interval; it advances by one cell however much time has passed; the time
\* of the last advance changes only in a frame that advances, to that
\* frame's clock reading, so two advances are at least an interval apart.
C8_MovementGating ==
    [][~gameOver =>
          /\ (snakeBody' # snakeBody) <=> (currentTime' - lastUpdateTime >= interval)
          /\ moved' <=> (snakeBody' # snakeBody)
          /\ moved' =>
                 /\ lastUpdateTime' = currentTime'
                 /\ lastUpdateTime' - lastUpdateTime >= interval
                 /\ snakeBody'[2] = snakeBody[1]
                 /\ snakeBody'[1] \in {Vector2Add(snakeBody[1], <<cellSize, 0>>),
                                       Vector2Add(snakeBody[1], <<-cellSize, 0>>),
                                       Vector2Add(snakeBody[1], <<0, cellSize>>),
                                       Vector2Add(snakeBody[1], <<0, -cellSize>>)}
          /\ ~moved' => lastUpdateTime' = lastUpdateTime]_vars

\* Two advances, each in a frame that came more than an interval after the
\* advance before it: the head is two cells from its initial cell at clock
\* reading 4 with an interval of 1.
C8_Witness ==
    moved /\ interval = 1 /\ currentTime = 4 /\ snakeBody[1] = <<250, 350>>

\* C9: in every advance the new body is the old body with the old head plus
\* direction * cellSize put in front; with the pending-growth flag set the
\* tail is kept (one segment more), otherwise the tail is removed (as many
\* segments as before); the other segments keep their order; the advance
\* leaves the flag cleared (it is set at the end of the frame only by a
\* food-eaten event of that same frame).
C9_MoveSnake ==
    [][moved' =>
          LET newHead == Vector2Add(snakeBody[1],
                                    Vector2Scale(lastDirection', cellSize))
              n == Len(snakeBody)
          IN  /\ snakeBody' = IF addSegment
                              THEN <<newHead>> \o snakeBody
                              ELSE <<newHead>> \o SubSeq(snakeBody, 1, n - 1)
              /\ Len(snakeBody') = IF addSegment THEN n + 1 ELSE n
              /\ addSegment' <=> (eatenEvents' = eatenEvents + 1)]_vars

\* An advance has kept the tail and left the flag cleared.
C9_Witness ==
    moved /\ ~addSegment /\ Len(snakeBody) = 4 /\ eatenEvents = 2

\* The direction of a key.
KeyDirection(k) ==
    CASE k = KEY_W -> <<0, -1>>
      [] k = KEY_S -> <<0, 1>>
      [] k = KEY_A -> <<-1, 0>>
      [] k = KEY_D -> <<1, 0>>

KeyOrder == <<KEY_W, KEY_S, KEY_A, KEY_D>>

\* The direction of the first key in the order Up, Down, Left, Right that
\* is down and is not the exact reverse of the direction d; d if there is
\* none.
FirstEligible(d, keys) ==
    LET ok == {i \in 1..Len(KeyOrder) :
                  /\ KeyOrder[i] \in keys
                  /\ KeyDirection(KeyOrder[i]) # Opposite(d)}
    IN  IF ok = {} THEN d
        ELSE KeyDirection(KeyOrder[CHOOSE i \in ok : \A j \in ok : i <= j])

\* C10: the direction resolved in a frame is that of the first key in the
\* order Up, Down, Left, Right that is down and is not the exact reverse of
\* the current direction, and the current direction if there is no such key
\* (only the reverse key down, or none); it is never the zero vector.
C10_DirectionResolution ==
    /\ [](lastDirection \in {<<0, -1>>, <<0, 1>>, <<-1, 0>>, <<1, 0>>})
    /\ [][lastDirection' = FirstEligible(lastDirection, keysDown')]_vars

\* A frame with the reverse key and a later key of the order down: Down and
\* Right are down and Right is resolved, which happens only when the snake
\* headed up.
C10_Witness ==
    keysDown = {KEY_S, KEY_D} /\ lastDirection = <<1, 0>>

\* C11: from the initial state (head (350,350), second segment (400,350),
\* direction left) with no key ever down, the game-over flag is false in
\* every frame before the advance that takes the head's x below 50, is set
\* by exactly that advance, the 7th, with the head at x = 0, and is true in
\* every later frame.
C11_BorderLatchScenario ==
    /\ [](currentTime = 0 =>
             /\ snakeBody = << <<350, 350>>, <<400, 350>> >>
             /\ lastDirection = <<-1, 0>>)
    /\ [](keysDown = {} =>
             /\ gameOver <=> advances = 7
             /\ gameOver <=> snakeBody[1][1] < 50
             /\ advances <= 7
             /\ snakeBody[1] = <<350 - 50 * advances, 350>>)
    /\ [][(keysDown = {} /\ gameOver) => gameOver']_vars

\* With no key ever down, a frame has run after the 7th advance ended the
\* game with the head at x = 0.
C11_Witness ==
    /\ keysDown = {}
    /\ gameOver
    /\ advances = 7
    /\ snakeBody[1] = <<0, 350>>
    /\ currentTime > lastUpdateTime

\* C12: linear motion: after N advances made with a constant direction and
\* without a collision, the head is at the initial head plus
\* N * (direction * cellSize), for every N >= 0.  With the keys held the
\* direction is that of the first frame in every later frame.
C12_LinearMotion ==
    /\ [][currentTime > 0 => lastDirection' = lastDirection]_vars
    /\ []((currentTime > 0 /\ ~gameOver) =>
             snakeBody[1] =
                 <<InitBody[1][1] + advances * (lastDirection[1] * cellSize),
                   InitBody[1][2] + advances * (lastDirection[2] * cellSize)>>)

\* Six advances straight down from the initial head, with S held.
C12_Witness ==
    /\ keysDown = {KEY_S}
    /\ ~gameOver
    /\ advances = 6
    /\ snakeBody[1] = <<350, 650>>

\* C13: a frame of the running game in which the time since the last
\* advance is below the interval mutates no snake state: the body, the
\* pending-growth flag and the current direction are the same at its end as
\* at its start, whatever keys are down.
C13_SubIntervalNoMutation ==
    [][(~gameOver /\ currentTime' - lastUpdateTime < interval) =>
          /\ snakeBody' = snakeBody
          /\ addSegment' = addSegment
          /\ lastDirection' = lastDirection]_vars

\* The body has two segments with the same coordinate.
HasDuplicate(body) ==
    \E i, j \in 1..Len(body) : i < j /\ body[i] = body[j]

\* C14: while the game runs the coordinates of the body are pairwise
\* distinct; two segments share a coordinate only in a state where the
\* self-collision check has set game-over (the head is on a segment behind
\* it); the body always has at least 2 segments.
C14_BodyDistinct ==
    /\ ~gameOver => ~HasDuplicate(snakeBody)
    /\ HasDuplicate(snakeBody) =>
           /\ gameOver
           /\ \E i \in 2..Len(snakeBody) : snakeBody[i] = snakeBody[1]
    /\ Len(snakeBody) >= 2

\* The game has ended with the head on the tail of a three-segment body.
C14_Witness ==
    gameOver /\ Len(snakeBody) = 3 /\ snakeBody[1] = snakeBody[3]

\* C15: the interval is fixed at construction from the difficulty name and
\* never changes: Easy gives 0.5 s, Medium 0.3 s, Hard 0.1 s and any other
\* string 0.5 s, as Easy; the 0.6 s fallback is never the interval of a
\* session.
C15_IntervalFromName ==
    /\ [](interval = CASE sDifficulty = "Easy" -> 5
                       [] sDifficulty = "Medium" -> 3
                       [] sDifficulty = "Hard" -> 1
                       [] OTHER -> 5)
    /\ [](interval # 6)
    /\ [][interval' = interval /\ sDifficulty' = sDifficulty]_vars

\* A session made from an unknown name has advanced, at 0.5 s.
C15_Witness ==
    /\ sDifficulty \notin {"Easy", "Medium", "Hard"}
    /\ interval = 5
    /\ moved
    /\ lastUpdateTime = 5

\* C16: the rejection loop of the food spawner returns, given that every
\* cell keeps being drawn, whenever a cell of the board is not occupied by
\* the snake, and then with a cell off the body; when the snake occupies
\* every cell of the board the spawner never returns, so the frame does not
\* end and no game-over is reached.
C16_SpawnLoop ==
    /\ (spawnPc = "draw" /\ HasFreeCell(snakeBody)) ~> (spawnPc = "done")
    /\ [](spawnPc = "done" => ~OnBody(applePos, snakeBody))
    /\ [](~HasFreeCell(snakeBody) => (spawnPc = "draw" /\ ~gameOver))

\* The loop has returned the one free cell of a board the snake leaves one
\* cell of.
C16_Witness ==
    /\ spawnPc = "done"
    /\ Len(snakeBody) = rows * cols - 1
    /\ ~OnBody(applePos, snakeBody)

\* C17: every food-eaten event is credited to the score: no frame both
\* finds the head on the food and sets game-over, so whenever the game is
\* over the food-eaten signal is not pending and the score is 10 times the
\* number of food-eaten events.
C17_EveryFoodScored ==
    /\ [](gameOver => (~foodEaten /\ score = 10 * eatenEvents))
    /\ [][~(eatenEvents' # eatenEvents /\ gameOver' /\ ~gameOver)]_vars

\* The game has ended after two food-eaten events, both scored.
C17_Witness ==
    gameOver /\ eatenEvents = 2 /\ score = 20 /\ ~foodEaten

\* C18: the length counter stays consistent with the snake: at the end of
\* every frame, length counter + (1 if the food-eaten signal is pending)
\* = body segments + (1 if growth is pending) = 2 + food-eaten events; no
\* food-eaten event finds the growth flag already set.
C18_LengthConsistent ==
    /\ [](LET signal == IF foodEaten THEN 1 ELSE 0
              growth == IF addSegment THEN 1 ELSE 0
          IN  /\ length + signal = Len(snakeBody) + growth
              /\ length + signal = 2 + eatenEvents)
    /\ [][eatenEvents' # eatenEvents => (moved' \/ ~addSegment)]_vars

\* The counter is ahead of the body: the food was scored in a frame that
\* did not advance, and the growth is still pending.
C18_Witness ==
    addSegment /\ ~foodEaten /\ length = 3 /\ Len(snakeBody) = 2 /\ ~moved

\* C19: at the end of every frame the food is on a grid-aligned cell of the
\* board (x and y in 50, 100, ..., 800) and on no cell of the snake body,
\* the head included.
C19_FoodOffBody ==
    /\ applePos[1] \in {50 * k : k \in 1..16}
    /\ applePos[2] \in {50 * k : k \in 1..16}
    /\ \A i \in 1..Len(snakeBody) : snakeBody[i] # applePos

\* A frame has ended with the head where the food was eaten and the new
\* food on another cell, next to a three-segment body.
C19_Witness ==
    /\ foodEaten
    /\ moved
    /\ Len(snakeBody) = 3
    /\ applePos # snakeBody[1]

====
